---- MODULE Spec2Model ----
(***************************************************************************)
(* Livepatch shadow variables (kernel/livepatch/shadow.c).                 *)
(*                                                                         *)
(* The model is a state machine over the global hashtable klp_shadow_hash, *)
(* the spinlock klp_shadow_lock, the list klp_shadow_types, the caller     *)
(* owned type descriptors (struct klp_shadow_type) and the position of     *)
(* every thread inside the API function it is executing.  Locked sections  *)
(* are split where a lock-free reader can tell the difference; the         *)
(* lock-free lookup klp_shadow_get() advances one hash node per step.      *)
(* Three workloads are explored: two threads that contend for one parent   *)
(* object, one thread that works on three parent objects, two of which     *)
(* hash to the same bucket, and one thread that uses a descriptor whose    *)
(* registered flag its owner has set by hand.                              *)
(***************************************************************************)
EXTENDS Integers, Sequences, FiniteSets, TLC

\* ------------------------------------------------------------------ bounds
\* struct klp_shadow objects the allocator can have outstanding at once
MaxShadows == 2

\* --------------------------------------------------------------- universe
NULL == 0
ENOMEM == 12

Threads == {1, 2}
\* parent object addresses; 1 and 3 share a bucket
Objs == {1, 2, 3}
\* caller-owned struct klp_shadow_type descriptors
Descs == {1, 2, 3}
Slots == 1 .. MaxShadows
\* the table is scaled down from 2^12 buckets to two
Buckets == {0, 1}

\* shadow_type->id: descriptors 1 and 2 describe the same type-id
TypeId(d) == IF d = 3 THEN 2 ELSE 1
\* shadow_type->ctor != NULL
HasCtor(d) == d # 3
\* shadow_type->dtor != NULL
HasDtor(d) == d # 3

Ids == {TypeId(d) : d \in Descs}

\* hash_min((unsigned long)obj, HASH_BITS(klp_shadow_hash))
Hash(o) == o % 2

\* The callers that are explored: two threads that contend for one parent
\* object, one thread that works on three parent objects, and one thread
\* whose descriptor 1 was initialised with .registered = true by its owner.
\* preset are the descriptors whose registered flag the caller has set,
\* descs the descriptors the caller passes.
Workloads ==
    {[threads |-> {1, 2}, objs |-> {1}, descs |-> Descs, preset |-> {}],
     [threads |-> {1}, objs |-> {1, 2, 3}, descs |-> Descs, preset |-> {}],
     [threads |-> {1}, objs |-> {1}, descs |-> Descs, preset |-> {1}]}

\* The callers under which termination is explored: two threads that
\* contend for one parent object through the two descriptors of one type-id.
LiveWorkload ==
    [threads |-> {1, 2}, objs |-> {1}, descs |-> {1, 2}, preset |-> {}]

VARIABLES
    wl,          \* the workload, fixed at the start
    head,        \* klp_shadow_hash: bucket -> first node (NULL when empty)
    mem,         \* slot -> the struct klp_shadow object at that address
    gp,          \* slot -> readers a pending kfree_rcu() still waits for
    lock,        \* klp_shadow_lock: holder thread, NULL when free
    types,       \* klp_shadow_types: list of [id, ref_cnt] records
    registered,  \* shadow_type->registered of every descriptor
    regmem,      \* struct klp_shadow_type_reg objects allocated, not kfree'd
    th           \* thread -> locals of the API call it executes

vars == <<wl, head, mem, gp, lock, types, registered, regmem, th>>

\* a struct klp_shadow that is not allocated
FreeShadow ==
    [st |-> "free", obj |-> NULL, id |-> NULL, data |-> "none",
     next |-> NULL, pprev |-> NULL, log |-> <<>>]

\* kzalloc(size + sizeof(struct klp_shadow), gfp_flags): zero filled
ZeroShadow ==
    [st |-> "alloc", obj |-> NULL, id |-> NULL, data |-> "zero",
     next |-> NULL, pprev |-> NULL, log |-> <<>>]

\* History of a concurrent klp_shadow_alloc() of the same <obj, id> that has
\* returned while this call was running: nothing yet
NoPeer == [done |-> FALSE, ctor |-> "no", ins |-> FALSE, buf |-> FALSE]

\* A thread that executes no API call.  ret is what its last call returned;
\* ctor, ins and exist say what that call did (constructor outcome, entry
\* attached, duplicate seen under the lock).  race and peer are history read
\* by the properties only: race of a thread at rest says that its last call
\* was the second of a race to return.
IdleThread ==
    [pc |-> "idle", op |-> "none", obj |-> NULL, desc |-> NULL,
     pos |-> NULL, new |-> NULL, reg |-> FALSE, ret |-> NULL,
     ctor |-> "no", ins |-> FALSE, exist |-> FALSE,
     race |-> FALSE, peer |-> NoPeer]

\* &klp_shadow_hash[b] as a value of node.pprev
HeadRef(b) == 0 - (b + 1)

\* ------------------------------------------------------- hlist primitives
\* The hashtable and the objects it links, passed around as one value so
\* that the list walks below can thread it through their iterations.
Heap == [head |-> head, mem |-> mem, gp |-> gp]

\* hash_add_rcu(klp_shadow_hash, &s->node, key): hlist_add_head_rcu()
hash_add_rcu(H, s, key) ==
    LET b == Hash(key)
        first == H.head[b]
    IN [H EXCEPT
          !.head = [H.head EXCEPT ![b] = s],
          !.mem = [x \in Slots |->
                     IF x = s
                     THEN [H.mem[x] EXCEPT !.next = first, !.pprev = HeadRef(b),
                                           !.st = "live",
                                           !.log = Append(@, "add")]
                     ELSE IF x = first
                          THEN [H.mem[x] EXCEPT !.pprev = s]
                          ELSE H.mem[x]]]

\* hash_del_rcu(&s->node): hlist_del_init_rcu() unlinks the node through its
\* pprev and clears pprev; the node's own next pointer is left in place.
hash_del_rcu(H, s) ==
    LET pp == H.mem[s].pprev
        nx == H.mem[s].next
    IN IF pp = NULL
       THEN H
       ELSE [H EXCEPT
               !.head = IF pp < 0 THEN [H.head EXCEPT ![0 - pp - 1] = nx] ELSE H.head,
               !.mem = [x \in Slots |->
                          IF x = s
                          THEN [H.mem[x] EXCEPT !.pprev = NULL, !.st = "unhashed",
                                                !.log = Append(@, "del")]
                          ELSE IF x = pp
                               THEN [H.mem[x] EXCEPT !.next = nx]
                               ELSE IF x = nx
                                    THEN [H.mem[x] EXCEPT !.pprev = pp]
                                    ELSE H.mem[x]]]

\* threads inside rcu_read_lock() ... rcu_read_unlock() of klp_shadow_get()
RcuReaders == {u \in Threads : th[u].pc = "scan"}

\* shadow_type->dtor(shadow->obj, shadow->data)
dtor(H, s) ==
    [H EXCEPT !.mem[s].data = "dtor", !.mem[s].log = Append(@, "dtor")]

\* kfree() in place of kfree_rcu(): the object is released at once
kfree_now(H, s) == [H EXCEPT !.mem[s] = FreeShadow]

\* kfree_rcu(shadow, rcu_head): the object is released once every read
\* section that runs now has ended.  The caller holds klp_shadow_lock with
\* interrupts off, which is such a section too.
kfree_rcu(H, s) ==
    [H EXCEPT !.mem[s].st = "rcu", !.mem[s].log = Append(@, "rcu"),
              !.gp[s] = RcuReaders \cup (Threads \cap {lock})]

\* End of a read section of t (rcu_read_unlock(), or the spin_unlock that
\* turns interrupts back on): the kfree_rcu()s that waited only for t run.
Quiesce(H, t) ==
    LET g == [s \in Slots |-> H.gp[s] \ {t}]
    IN [H EXCEPT
          !.gp = g,
          !.mem = [s \in Slots |->
                     IF H.mem[s].st = "rcu" /\ g[s] = {}
                     THEN FreeShadow
                     ELSE H.mem[s]]]

\* klp_shadow_match() that compares the parent object only
klp_shadow_match_obj(m, s, o, d) == m[s].obj = o

\* klp_shadow_match(shadow, obj, shadow_type)
klp_shadow_match(m, s, o, d) == m[s].obj = o /\ m[s].id = TypeId(d)

\* klp_shadow_free_struct() that forgets the destructor
klp_shadow_free_struct_nodtor(H, s, d) == kfree_rcu(hash_del_rcu(H, s), s)

\* klp_shadow_free_struct() that calls the destructor before it unlinks
klp_shadow_free_struct_early(H, s, d) ==
    LET H1 == IF HasDtor(d) THEN dtor(H, s) ELSE H
    IN kfree_rcu(hash_del_rcu(H1, s), s)

\* klp_shadow_free_struct(shadow, shadow_type)
klp_shadow_free_struct(H, s, d) ==
    LET H1 == hash_del_rcu(H, s)
        H2 == IF HasDtor(d) THEN dtor(H1, s) ELSE H1
    IN kfree_rcu(H2, s)

\* hash_for_each_possible() whose body takes the first node unseen
ChainFind_first(m, s, o, d) == s

\* hash_for_each_possible(): first node of the chain from s that matches
RECURSIVE ChainFind(_, _, _, _)
ChainFind(m, s, o, d) ==
    IF s = NULL THEN NULL
    ELSE IF klp_shadow_match(m, s, o, d) THEN s
    ELSE ChainFind(m, m[s].next, o, d)

\* klp_shadow_get() with the registered test inverted
klp_shadow_get_inverted(o, d) ==
    IF registered[d] THEN NULL ELSE ChainFind(mem, head[Hash(o)], o, d)

\* klp_shadow_get() run to completion without interference, as it is when
\* called under klp_shadow_lock
klp_shadow_get_locked(o, d) ==
    IF ~registered[d] THEN NULL ELSE ChainFind(mem, head[Hash(o)], o, d)

\* the loop body of __klp_shadow_free_all() with the break of
\* klp_shadow_free() after the first match
RECURSIVE FreeAllChain_break(_, _, _)
FreeAllChain_break(H, s, d) ==
    IF s = NULL THEN H
    ELSE IF klp_shadow_match(H.mem, s, H.mem[s].obj, d)
         THEN klp_shadow_free_struct(H, s, d)
         ELSE FreeAllChain_break(H, H.mem[s].next, d)

\* one bucket of hash_for_each() in __klp_shadow_free_all(): the cursor
\* moves on through the next pointer of the node it has just visited
RECURSIVE FreeAllChain(_, _, _)
FreeAllChain(H, s, d) ==
    IF s = NULL THEN H
    ELSE LET H1 == IF klp_shadow_match(H.mem, s, H.mem[s].obj, d)
                   THEN klp_shadow_free_struct(H, s, d)
                   ELSE H
         IN FreeAllChain(H1, H1.mem[s].next, d)

\* hash_for_each(): every bucket from b on, in index order
RECURSIVE FreeAllFrom(_, _, _)
FreeAllFrom(H, b, d) ==
    IF b \notin Buckets THEN H
    ELSE FreeAllFrom(FreeAllChain(H, H.head[b], d), b + 1, d)

\* __klp_shadow_free_all(shadow_type)
klp_shadow_free_all_locked(H, d) == FreeAllFrom(H, 0, d)

\* klp_shadow_type_get_reg() that takes the first record whatever its id
klp_shadow_type_get_reg_first(d) == IF types = <<>> THEN NULL ELSE 1

\* klp_shadow_type_get_reg(shadow_type): index into klp_shadow_types
klp_shadow_type_get_reg(d) ==
    LET hits == {i \in 1 .. Len(types) : types[i].id = TypeId(d)}
    IN IF hits = {} THEN NULL ELSE CHOOSE i \in hits : \A j \in hits : i <= j

\* list_del() of the first record in place of the one found
list_del_head(l, i) == Tail(l)

\* list_del(&shadow_type_reg->list)
list_del(l, i) == SubSeq(l, 1, i - 1) \o SubSeq(l, i + 1, Len(l))

\* ------------------------------------------------------------------- Init
Boot ==
    /\ head = [b \in Buckets |-> NULL]
    /\ mem = [s \in Slots |-> FreeShadow]
    /\ gp = [s \in Slots |-> {}]
    /\ lock = NULL
    /\ types = <<>>
    /\ registered = [d \in Descs |-> d \in wl.preset]
    /\ regmem = 0
    /\ th = [t \in Threads |-> IdleThread]

Init == wl \in Workloads /\ Boot

\* the same start for the callers of LiveWorkload
FairInit == wl = LiveWorkload /\ Boot

\* -------------------------------------------------------- thread helpers
\* the locals of a call that starts now
Call(o, ob, d, at) ==
    [IdleThread EXCEPT !.op = o, !.obj = ob, !.desc = d, !.pc = at]

\* A call r races the running call q: both are klp_shadow_alloc() of one
\* <obj, id> through registered descriptors, and no such entry exists.
Races(r, q) ==
    /\ r.op = "alloc" /\ q.op = "alloc" /\ q.pc # "idle"
    /\ q.obj = r.obj /\ TypeId(q.desc) = TypeId(r.desc)
    /\ registered[r.desc] /\ registered[q.desc]
    /\ ChainFind(mem, head[Hash(r.obj)], r.obj, r.desc) = NULL

\* th after thread t has made the call r.  A race that ran before is over
\* once a third call is made.
Calls(t, r) ==
    [u \in Threads |->
       IF u = t
       THEN [r EXCEPT !.race = \E w \in Threads \ {t} : Races(r, th[w])]
       ELSE [th[u] EXCEPT !.race = Races(r, th[u]), !.peer = NoPeer]]

\* th after thread t, with locals r, has returned v
Returns(t, r, v) ==
    [u \in Threads |->
       IF u = t
       THEN [IdleThread EXCEPT !.ret = v, !.ctor = r.ctor, !.ins = r.ins,
                               !.exist = r.exist,
                               !.race = r.race /\ r.peer.done,
                               !.peer = IF r.race THEN r.peer ELSE NoPeer]
       ELSE IF r.race /\ th[u].race
            THEN [th[u] EXCEPT !.peer = [done |-> TRUE, ctor |-> r.ctor,
                                         ins |-> r.ins, buf |-> r.new # NULL]]
            ELSE th[u]]

\* What the caller of the lock-free klp_shadow_get() does with its result v:
\* klp_shadow_get() itself returns it; __klp_shadow_get_or_alloc() returns a
\* non-NULL v and otherwise kzalloc()s the speculative object.  m is the
\* memory as the lookup leaves it.
GetDone(t, v, m) ==
    IF th[t].op = "get" \/ v # NULL
    THEN /\ th' = Returns(t, th[t], v)
         /\ mem' = m
    ELSE \/ /\ th' = Returns(t, th[t], NULL)
            /\ mem' = m
         \/ \E s \in Slots :
              /\ m[s].st = "free"
              /\ mem' = [m EXCEPT ![s] = ZeroShadow]
              /\ th' = [th EXCEPT ![t].pc = "lock", ![t].pos = NULL, ![t].new = s]

\* ---------------------------------------------------------------- actions
klp_shadow_get(t) ==
    /\ th[t].pc = "idle"
    /\ \E o \in wl.objs, d \in wl.descs : th' = Calls(t, Call("get", o, d, "get"))
    /\ UNCHANGED <<wl, head, mem, gp, lock, types, registered, regmem>>

klp_shadow_alloc(t) ==
    /\ th[t].pc = "idle"
    /\ \E o \in wl.objs, d \in wl.descs : th' = Calls(t, Call("alloc", o, d, "get"))
    /\ UNCHANGED <<wl, head, mem, gp, lock, types, registered, regmem>>

klp_shadow_get_or_alloc(t) ==
    /\ th[t].pc = "idle"
    /\ \E o \in wl.objs, d \in wl.descs :
         th' = Calls(t, Call("get_or_alloc", o, d, "get"))
    /\ UNCHANGED <<wl, head, mem, gp, lock, types, registered, regmem>>

\* klp_shadow_get() entry that waits for klp_shadow_lock to be free
get_enter_locked(t) ==
    /\ th[t].pc = "get"
    /\ lock = NULL
    /\ IF ~registered[th[t].desc] \/ head[Hash(th[t].obj)] = NULL
       THEN GetDone(t, NULL, mem)
       ELSE /\ th' = [th EXCEPT ![t].pc = "scan", ![t].pos = head[Hash(th[t].obj)]]
            /\ mem' = mem
    /\ UNCHANGED <<wl, head, gp, lock, types, registered, regmem>>

\* klp_shadow_get() entry: the racy registered test, rcu_read_lock() and the
\* read of the bucket head
get_enter(t) ==
    /\ th[t].pc = "get"
    /\ IF ~registered[th[t].desc] \/ head[Hash(th[t].obj)] = NULL
       THEN GetDone(t, NULL, mem)
       ELSE /\ th' = [th EXCEPT ![t].pc = "scan", ![t].pos = head[Hash(th[t].obj)]]
            /\ mem' = mem
    /\ UNCHANGED <<wl, head, gp, lock, types, registered, regmem>>

\* hash_for_each_possible_rcu() body in klp_shadow_get(): one node per step,
\* rcu_read_unlock() when the walk ends
get_scan(t) ==
    /\ th[t].pc = "scan"
    /\ LET s == th[t].pos
           H == Quiesce(Heap, t)
       IN IF klp_shadow_match(mem, s, th[t].obj, th[t].desc)
          THEN GetDone(t, s, H.mem) /\ gp' = H.gp
          ELSE IF mem[s].next = NULL
               THEN GetDone(t, NULL, H.mem) /\ gp' = H.gp
               ELSE /\ th' = [th EXCEPT ![t].pos = mem[s].next]
                    /\ UNCHANGED <<mem, gp>>
    /\ UNCHANGED <<wl, head, lock, types, registered, regmem>>

\* a lock acquisition that does not wait for the holder to leave
spin_lock_nowait(t) ==
    /\ th[t].pc = "lock"
    /\ lock' = t
    /\ th' = [th EXCEPT ![t].pc = "cs"]
    /\ UNCHANGED <<wl, head, mem, gp, types, registered, regmem>>

\* spin_lock_irqsave(&klp_shadow_lock) / spin_lock_irq(&klp_shadow_lock)
spin_lock(t) ==
    /\ th[t].pc = "lock"
    /\ lock = NULL
    /\ lock' = t
    /\ th' = [th EXCEPT ![t].pc = "cs"]
    /\ UNCHANGED <<wl, head, mem, gp, types, registered, regmem>>

\* the tail of __klp_shadow_get_or_alloc() that kfree()s the speculative
\* object only when a duplicate was found
klp_shadow_alloc_tail_leak(t, r, m, shadow_data) ==
    /\ lock' = NULL
    /\ mem' = IF r.exist THEN [m EXCEPT ![r.new] = FreeShadow] ELSE m
    /\ th' = Returns(t, r, IF r.exist /\ r.op = "alloc" THEN NULL ELSE shadow_data)

\* spin_unlock_irqrestore() and the tail of __klp_shadow_get_or_alloc():
\* kfree() of an unused speculative object, WARN and NULL on a duplicate for
\* klp_shadow_alloc(), else the data pointer.  r are the locals, m the memory
\* and shadow_data the result that __klp_shadow_get_or_use() has left.
klp_shadow_alloc_tail(t, r, m, shadow_data) ==
    /\ lock' = NULL
    /\ mem' = IF shadow_data = NULL \/ r.exist
              THEN [m EXCEPT ![r.new] = FreeShadow]
              ELSE m
    /\ th' = Returns(t, r, IF r.exist /\ r.op = "alloc" THEN NULL ELSE shadow_data)

\* __klp_shadow_get_or_use() that never calls the constructor
klp_shadow_get_or_use_noctor(t) ==
    /\ th[t].pc = "cs"
    /\ th[t].op \in {"alloc", "get_or_alloc"}
    /\ LET r == th[t]
           sd == klp_shadow_get_locked(r.obj, r.desc)
           m1 == [mem EXCEPT ![r.new].obj = r.obj, ![r.new].id = TypeId(r.desc)]
       IN IF sd # NULL
          THEN klp_shadow_alloc_tail(t, [r EXCEPT !.exist = TRUE], mem, sd)
          ELSE /\ th' = [th EXCEPT ![t].pc = "add"]
               /\ mem' = m1
               /\ lock' = lock
    /\ UNCHANGED <<wl, head, gp, types, registered, regmem>>

\* __klp_shadow_get_or_use() up to the constructor, under klp_shadow_lock
klp_shadow_get_or_use(t) ==
    /\ th[t].pc = "cs"
    /\ th[t].op \in {"alloc", "get_or_alloc"}
    /\ LET r == th[t]
           sd == klp_shadow_get_locked(r.obj, r.desc)
           m1 == [mem EXCEPT ![r.new].obj = r.obj, ![r.new].id = TypeId(r.desc)]
           m2 == [m1 EXCEPT ![r.new].data = "ctor", ![r.new].log = Append(@, "ctor")]
       IN IF sd # NULL
          THEN klp_shadow_alloc_tail(t, [r EXCEPT !.exist = TRUE], mem, sd)
          ELSE IF HasCtor(r.desc)
               THEN \/ /\ th' = [th EXCEPT ![t].pc = "add", ![t].ctor = "ok"]
                       /\ mem' = m2
                       /\ lock' = lock
                    \/ klp_shadow_alloc_tail(t, [r EXCEPT !.ctor = "err"], m1, NULL)
               ELSE /\ th' = [th EXCEPT ![t].pc = "add"]
                    /\ mem' = m1
                    /\ lock' = lock
    /\ UNCHANGED <<wl, head, gp, types, registered, regmem>>

\* hash_add_rcu() at the end of __klp_shadow_get_or_use(), then the unlock
\* and the return
klp_shadow_attach(t) ==
    /\ th[t].pc = "add"
    /\ LET H == hash_add_rcu(Heap, th[t].new, mem[th[t].new].obj)
       IN /\ head' = H.head
          /\ klp_shadow_alloc_tail(t, [th[t] EXCEPT !.ins = TRUE], H.mem, th[t].new)
    /\ UNCHANGED <<wl, gp, types, registered, regmem>>

klp_shadow_free(t) ==
    /\ th[t].pc = "idle"
    /\ \E o \in wl.objs, d \in wl.descs : th' = Calls(t, Call("free", o, d, "lock"))
    /\ UNCHANGED <<wl, head, mem, gp, lock, types, registered, regmem>>

\* the locked section of klp_shadow_free(): hash_for_each_possible() up to
\* the first match, which is freed
klp_shadow_free_locked(t) ==
    /\ th[t].pc = "cs"
    /\ th[t].op = "free"
    /\ LET r == th[t]
           s == ChainFind(mem, head[Hash(r.obj)], r.obj, r.desc)
           H == IF s = NULL THEN Heap ELSE klp_shadow_free_struct(Heap, s, r.desc)
       IN /\ head' = H.head
          /\ mem' = H.mem
          /\ gp' = H.gp
    /\ th' = [th EXCEPT ![t].pc = "unlock"]
    /\ UNCHANGED <<wl, lock, types, registered, regmem>>

klp_shadow_free_all(t) ==
    /\ th[t].pc = "idle"
    /\ \E d \in wl.descs : th' = Calls(t, Call("free_all", NULL, d, "lock"))
    /\ UNCHANGED <<wl, head, mem, gp, lock, types, registered, regmem>>

\* the locked section of klp_shadow_free_all()
klp_shadow_free_all_cs(t) ==
    /\ th[t].pc = "cs"
    /\ th[t].op = "free_all"
    /\ LET H == klp_shadow_free_all_locked(Heap, th[t].desc)
       IN /\ head' = H.head
          /\ mem' = H.mem
          /\ gp' = H.gp
    /\ th' = [th EXCEPT ![t].pc = "unlock"]
    /\ UNCHANGED <<wl, lock, types, registered, regmem>>

klp_shadow_register(t) ==
    /\ th[t].pc = "idle"
    /\ \E d \in wl.descs : th' = Calls(t, Call("register", NULL, d, "kzalloc"))
    /\ UNCHANGED <<wl, head, mem, gp, lock, types, registered, regmem>>

\* klp_shadow_register() that sets shadow_type->registered before it
\* allocates the record
klp_shadow_register_kzalloc_flag(t) ==
    /\ th[t].pc = "kzalloc"
    /\ registered' = [registered EXCEPT ![th[t].desc] = TRUE]
    /\ \/ /\ th' = Returns(t, th[t], 0 - ENOMEM)
          /\ regmem' = regmem
       \/ /\ th' = [th EXCEPT ![t].pc = "lock", ![t].reg = TRUE]
          /\ regmem' = regmem + 1
    /\ UNCHANGED <<wl, head, mem, gp, lock, types>>

\* kzalloc(sizeof(struct klp_shadow_type_reg), GFP_KERNEL) in
\* klp_shadow_register(): -ENOMEM when it fails
klp_shadow_register_kzalloc(t) ==
    /\ th[t].pc = "kzalloc"
    /\ \/ /\ th' = Returns(t, th[t], 0 - ENOMEM)
          /\ regmem' = regmem
       \/ /\ th' = [th EXCEPT ![t].pc = "lock", ![t].reg = TRUE]
          /\ regmem' = regmem + 1
    /\ UNCHANGED <<wl, head, mem, gp, lock, types, registered>>

\* the locked section of klp_shadow_register() without the test of
\* shadow_type->registered
klp_shadow_register_unguarded(t) ==
    /\ th[t].pc = "cs"
    /\ th[t].op = "register"
    /\ LET d == th[t].desc
           i == klp_shadow_type_get_reg(d)
           l == IF i = NULL
                THEN <<[id |-> TypeId(d), ref_cnt |-> 0]>> \o types
                ELSE types
           j == IF i = NULL THEN 1 ELSE i
       IN /\ regmem' = IF i = NULL THEN regmem ELSE regmem - 1
          /\ types' = [l EXCEPT ![j].ref_cnt = @ + 1]
          /\ registered' = [registered EXCEPT ![d] = TRUE]
    /\ lock' = NULL
    /\ th' = Returns(t, th[t], 0)
    /\ UNCHANGED <<wl, head, mem, gp>>

\* the locked section of klp_shadow_register() without the kfree() of the
\* unused record on the already-registered path
klp_shadow_register_locked_leak(t) ==
    /\ th[t].pc = "cs"
    /\ th[t].op = "register"
    /\ LET d == th[t].desc
           i == klp_shadow_type_get_reg(d)
           l == IF i = NULL
                THEN <<[id |-> TypeId(d), ref_cnt |-> 0]>> \o types
                ELSE types
           j == IF i = NULL THEN 1 ELSE i
       IN IF registered[d]
          THEN UNCHANGED <<types, registered, regmem>>
          ELSE /\ regmem' = IF i = NULL THEN regmem ELSE regmem - 1
               /\ types' = [l EXCEPT ![j].ref_cnt = @ + 1]
               /\ registered' = [registered EXCEPT ![d] = TRUE]
    /\ lock' = NULL
    /\ th' = Returns(t, th[t], 0)
    /\ UNCHANGED <<wl, head, mem, gp>>

\* the locked section of klp_shadow_register() and its unlock
klp_shadow_register_locked(t) ==
    /\ th[t].pc = "cs"
    /\ th[t].op = "register"
    /\ LET d == th[t].desc
           i == klp_shadow_type_get_reg(d)
           l == IF i = NULL
                THEN <<[id |-> TypeId(d), ref_cnt |-> 0]>> \o types
                ELSE types
           j == IF i = NULL THEN 1 ELSE i
       IN IF registered[d]
          THEN /\ regmem' = regmem - 1
               /\ UNCHANGED <<types, registered>>
          ELSE /\ regmem' = IF i = NULL THEN regmem ELSE regmem - 1
               /\ types' = [l EXCEPT ![j].ref_cnt = @ + 1]
               /\ registered' = [registered EXCEPT ![d] = TRUE]
    /\ lock' = NULL
    /\ th' = Returns(t, th[t], 0)
    /\ UNCHANGED <<wl, head, mem, gp>>

klp_shadow_unregister(t) ==
    /\ th[t].pc = "idle"
    /\ \E d \in wl.descs : th' = Calls(t, Call("unregister", NULL, d, "lock"))
    /\ UNCHANGED <<wl, head, mem, gp, lock, types, registered, regmem>>

\* the locked section of klp_shadow_unregister() whose error path returns
\* without the unlock
klp_shadow_unregister_locked_nounlock(t) ==
    /\ th[t].pc = "cs"
    /\ th[t].op = "unregister"
    /\ LET d == th[t].desc
           i == klp_shadow_type_get_reg(d)
       IN IF ~registered[d] \/ i = NULL
          THEN /\ th' = Returns(t, th[t], NULL)
               /\ UNCHANGED <<head, mem, gp, types, registered, regmem>>
          ELSE /\ th' = [th EXCEPT ![t].pc = "unlock"]
               /\ registered' = [registered EXCEPT ![d] = FALSE]
               /\ IF types[i].ref_cnt - 1 = 0
                  THEN LET H == klp_shadow_free_all_locked(Heap, d)
                       IN /\ head' = H.head
                          /\ mem' = H.mem
                          /\ gp' = H.gp
                          /\ types' = list_del(types, i)
                          /\ regmem' = regmem - 1
                  ELSE /\ types' = [types EXCEPT ![i].ref_cnt = @ - 1]
                       /\ UNCHANGED <<head, mem, gp, regmem>>
    /\ UNCHANGED <<wl, lock>>

\* the locked section of klp_shadow_unregister()
klp_shadow_unregister_locked(t) ==
    /\ th[t].pc = "cs"
    /\ th[t].op = "unregister"
    /\ LET d == th[t].desc
           i == klp_shadow_type_get_reg(d)
       IN IF ~registered[d] \/ i = NULL
          THEN UNCHANGED <<head, mem, gp, types, registered, regmem>>
          ELSE /\ registered' = [registered EXCEPT ![d] = FALSE]
               /\ IF types[i].ref_cnt - 1 = 0
                  THEN LET H == klp_shadow_free_all_locked(Heap, d)
                       IN /\ head' = H.head
                          /\ mem' = H.mem
                          /\ gp' = H.gp
                          /\ types' = list_del(types, i)
                          /\ regmem' = regmem - 1
                  ELSE /\ types' = [types EXCEPT ![i].ref_cnt = @ - 1]
                       /\ UNCHANGED <<head, mem, gp, regmem>>
    /\ th' = [th EXCEPT ![t].pc = "unlock"]
    /\ UNCHANGED <<wl, lock>>

\* spin_unlock_irqrestore() / spin_unlock_irq() of klp_shadow_free(),
\* klp_shadow_free_all() and klp_shadow_unregister(), and their return
spin_unlock(t) ==
    /\ th[t].pc = "unlock"
    /\ LET U == Quiesce(Heap, t)
       IN /\ mem' = U.mem
          /\ gp' = U.gp
    /\ lock' = NULL
    /\ th' = Returns(t, th[t], NULL)
    /\ UNCHANGED <<wl, head, types, registered, regmem>>

Next ==
    \/ \E t \in wl.threads : klp_shadow_get(t)
    \/ \E t \in wl.threads : klp_shadow_alloc(t)
    \/ \E t \in wl.threads : klp_shadow_get_or_alloc(t)
    \/ \E t \in wl.threads : get_enter(t)
    \/ \E t \in wl.threads : get_scan(t)
    \/ \E t \in wl.threads : spin_lock(t)
    \/ \E t \in wl.threads : klp_shadow_get_or_use(t)
    \/ \E t \in wl.threads : klp_shadow_attach(t)
    \/ \E t \in wl.threads : klp_shadow_free(t)
    \/ \E t \in wl.threads : klp_shadow_free_locked(t)
    \/ \E t \in wl.threads : klp_shadow_free_all(t)
    \/ \E t \in wl.threads : klp_shadow_free_all_cs(t)
    \/ \E t \in wl.threads : klp_shadow_register(t)
    \/ \E t \in wl.threads : klp_shadow_register_kzalloc(t)
    \/ \E t \in wl.threads : klp_shadow_register_locked(t)
    \/ \E t \in wl.threads : klp_shadow_unregister(t)
    \/ \E t \in wl.threads : klp_shadow_unregister_locked(t)
    \/ \E t \in wl.threads : spin_unlock(t)

Spec == Init /\ [][Next]_vars

\* the steps of thread t inside an API call, the lock acquisition apart:
\* straight-line code, loops over finite lists and callbacks that return
Proc(t) ==
    \/ get_enter(t)
    \/ get_scan(t)
    \/ klp_shadow_get_or_use(t)
    \/ klp_shadow_attach(t)
    \/ klp_shadow_free_locked(t)
    \/ klp_shadow_free_all_cs(t)
    \/ klp_shadow_register_kzalloc(t)
    \/ klp_shadow_register_locked(t)
    \/ klp_shadow_unregister_locked(t)
    \/ spin_unlock(t)

\* Every thread inside a call keeps running, and klp_shadow_lock is a fair
\* (queued) spinlock: a thread that waits for it gets it.
FairSpec ==
    /\ FairInit /\ [][Next]_vars
    /\ \A t \in Threads : WF_vars(Proc(t)) /\ SF_vars(spin_lock(t))

\* ------------------------------------------------------------ type check
\* the nodes of bucket b, in list order
RECURSIVE ChainFrom(_, _)
ChainFrom(m, s) == IF s = NULL THEN <<>> ELSE <<s>> \o ChainFrom(m, m[s].next)

Hashed == {s \in Slots : mem[s].st = "live"}

TypeOK ==
    /\ wl \in Workloads \cup {LiveWorkload}
    /\ head \in [Buckets -> Slots \cup {NULL}]
    /\ lock \in Threads \cup {NULL}
    /\ \A s \in Slots : mem[s].st \in {"free", "alloc", "live", "rcu"}
    /\ \A s \in Slots : (mem[s].pprev # NULL) <=> (mem[s].st = "live")
    /\ \A s \in Slots : (gp[s] # {}) <=> (mem[s].st = "rcu")
    /\ \A b \in Buckets : \A i \in 1 .. Len(ChainFrom(mem, head[b])) :
         /\ ChainFrom(mem, head[b])[i] \in Hashed
         /\ Hash(mem[ChainFrom(mem, head[b])[i]].obj) = b
    /\ \A s \in Hashed : \E i \in 1 .. Len(ChainFrom(mem, head[Hash(mem[s].obj)])) :
         ChainFrom(mem, head[Hash(mem[s].obj)])[i] = s
    /\ regmem >= 0

\* ----------------------------------------------------------------- claims
\* the entries of <o, i> that are in the hashtable
Entries(o, i) ==
    {s \in Hashed : mem[s].obj = o /\ mem[s].id = i}

\* a struct klp_shadow_type_reg for type-id i is on klp_shadow_types
Recorded(i) == \E k \in 1 .. Len(types) : types[k].id = i

\* C1: in every reachable state the hashtable holds at most one entry for
\* any <owner, type-id> pair.
C1_AtMostOneEntry ==
    \A o \in Objs, i \in Ids : Cardinality(Entries(o, i)) <= 1

\* C7: whenever no registration record exists for a type-id, the hashtable
\* holds no entry of that type-id.
C7_NoRecordNoEntry ==
    \A i \in Ids : ~Recorded(i) => \A o \in Objs : Entries(o, i) = {}

\* thread t returns in this step from the call op(o, d)
Return(t, op, o, d) ==
    /\ th[t].pc # "idle" /\ th'[t].pc = "idle"
    /\ th[t].op = op /\ th[t].obj = o /\ th[t].desc = d

\* C2: klp_shadow_alloc() through a registered descriptor that returns while
\* an entry of its <obj, id> is in the hashtable returns NULL, has not run the constructor and leaves that
\* entry as it was, whether the lock-free lookup or the lookup under the
\* lock has seen the entry.
C2_StrictAllocDuplicate ==
    [][\A t \in Threads, o \in Objs, d \in Descs :
         (Return(t, "alloc", o, d) /\ registered[d]
            /\ Entries(o, TypeId(d)) # {})
         => /\ th'[t].ret = NULL
            /\ th'[t].ctor = "no"
            /\ \A s \in Entries(o, TypeId(d)) : mem'[s] = mem[s]]_vars

\* C3: when klp_shadow_alloc(o, t) returns the data pointer P, a
\* klp_shadow_get(o, t) that follows returns P.
C3_GetAfterAlloc ==
    [][\A t \in Threads, o \in Objs, d \in Descs :
         (Return(t, "alloc", o, d) /\ th'[t].ret # NULL)
         => klp_shadow_get_locked(o, d)' = th'[t].ret]_vars

\* C5: of two concurrent klp_shadow_alloc() calls for one <obj, id>, the one
\* whose buffer is not attached while the other's is returns NULL.
C5_LoserGetsNull ==
    [][\A t \in Threads, o \in Objs, d \in Descs :
         (Return(t, "alloc", o, d) /\ th[t].race /\ th[t].peer.ins
            /\ ~th'[t].ins)
         => th'[t].ret = NULL]_vars

\* C8: klp_shadow_get_or_alloc(o, t) that returns while the entry of an
\* earlier call is in the hashtable returns that entry, has not run the
\* constructor again and leaves the hashtable with that single entry.
C8_GetOrAllocTwice ==
    [][\A t \in Threads, o \in Objs, d \in Descs :
         (Return(t, "get_or_alloc", o, d) /\ Entries(o, TypeId(d)) # {})
         => /\ th'[t].ret \in Entries(o, TypeId(d))
            /\ th'[t].ctor = "no"
            /\ Entries(o, TypeId(d))' = Entries(o, TypeId(d))
            /\ Cardinality(Entries(o, TypeId(d))') = 1]_vars

\* C9: when klp_shadow_free(o, t) has returned, a klp_shadow_get(o, t) that
\* starts then returns NULL.
C9_GetAfterFree ==
    [][\A t \in Threads, o \in Objs, d \in Descs :
         Return(t, "free", o, d) => klp_shadow_get_locked(o, d)' = NULL]_vars

\* node s is on a chain of the hashtable
OnChain(s) ==
    \E b \in Buckets : \E k \in 1 .. Len(ChainFrom(mem, head[b])) :
       ChainFrom(mem, head[b])[k] = s

\* entry s is in the hashtable after the step as it was before: same owner,
\* id and data
Kept(s) ==
    /\ mem'[s].st = "live" /\ OnChain(s)'
    /\ mem'[s].obj = mem[s].obj /\ mem'[s].id = mem[s].id
    /\ mem'[s].data = mem[s].data

\* C4 (amended): two klp_shadow_alloc() calls that race for one <obj, id>
\* attach at most one entry and have at most one successful constructor
\* call between them; when no constructor call fails and at least one of
\* them got its buffer, exactly one entry is attached, after exactly one
\* constructor call when the type has a constructor.
C4_RaceOutcome ==
    [][\A t \in Threads, o \in Objs, d \in Descs :
         (Return(t, "alloc", o, d) /\ th[t].race /\ th[t].peer.done)
         => LET p == th[t].peer
                r == th'[t]
            IN /\ ~(p.ins /\ r.ins)
               /\ ~(p.ctor = "ok" /\ r.ctor = "ok")
               /\ (p.ctor # "err" /\ r.ctor # "err"
                     /\ (p.buf \/ th[t].new # NULL))
                  => /\ p.ins # r.ins
                     /\ IF HasCtor(d)
                        THEN {p.ctor, r.ctor} = {"ok", "no"}
                        ELSE {p.ctor, r.ctor} = {"no"}]_vars

\* C4 as stated: a finished race has made exactly one constructor call and
\* attached exactly one entry.
C4_ExactlyOnce ==
    [][\A t \in Threads, o \in Objs, d \in Descs :
         (Return(t, "alloc", o, d) /\ th[t].race /\ th[t].peer.done)
         => /\ th[t].peer.ins # th'[t].ins
            /\ (th[t].peer.ctor = "no") # (th'[t].ctor = "no")]_vars

\* a race is over: one call attached its entry after its constructor, the
\* other found the entry under the lock
C4_Witness ==
    \E t \in Threads :
       /\ th[t].pc = "idle" /\ th[t].race /\ th[t].exist /\ ~th[t].ins
       /\ th[t].peer.ins /\ th[t].peer.ctor = "ok"

\* C6: the locked section of klp_shadow_unregister() that takes the
\* reference count of an id to zero leaves no entry of that id in the
\* hashtable, has run the destructor on every entry it removed, has taken
\* the registration record off klp_shadow_types, and has left the entries
\* of every other id as they were.
C6_LastUnregisterPurges ==
    [][\A t \in Threads, d \in Descs :
         (/\ th[t].pc = "cs" /\ th[t].op = "unregister" /\ th[t].desc = d
          /\ registered[d] /\ klp_shadow_type_get_reg(d) # NULL
          /\ types[klp_shadow_type_get_reg(d)].ref_cnt = 1
          /\ th'[t].pc = "unlock")
         => /\ \A s \in Slots : mem'[s].st = "live" => mem'[s].id # TypeId(d)
            /\ \A s \in Hashed :
                 IF mem[s].id = TypeId(d)
                 THEN /\ mem'[s].st = "rcu" /\ ~OnChain(s)'
                      /\ HasDtor(d) => mem'[s].data = "dtor"
                 ELSE Kept(s)
            /\ ~Recorded(TypeId(d))'
            /\ Len(types') = Len(types) - 1]_vars

\* the last klp_shadow_unregister() of an id is about to unlock: it has
\* retired an entry of the id and kept an entry of the other id
C6_Witness ==
    \E t \in Threads :
       /\ th[t].pc = "unlock" /\ th[t].op = "unregister"
       /\ ~registered[th[t].desc] /\ ~Recorded(TypeId(th[t].desc))
       /\ \E s \in Slots : /\ mem[s].st = "rcu" /\ mem[s].data = "dtor"
                            /\ mem[s].id = TypeId(th[t].desc)
       /\ \E s \in Hashed : mem[s].id # TypeId(th[t].desc)

\* C10: the locked section of klp_shadow_free_all(t1) takes every entry of
\* id t1 out of the hashtable, whatever its owner and bucket, and leaves
\* every entry of another id in it with the same owner, id and data.
C10_FreeAll ==
    [][\A t \in Threads, d \in Descs :
         (/\ th[t].pc = "cs" /\ th[t].op = "free_all" /\ th[t].desc = d
          /\ th'[t].pc = "unlock")
         => \A s \in Hashed :
              IF mem[s].id = TypeId(d)
              THEN mem'[s].st = "rcu" /\ ~OnChain(s)'
              ELSE Kept(s)]_vars

\* klp_shadow_free_all() is about to unlock: it has retired two entries of
\* its id that were on one chain
C10_Witness ==
    \E t \in Threads :
       /\ th[t].pc = "unlock" /\ th[t].op = "free_all"
       /\ \E s, u \in Slots :
            /\ s # u /\ mem[s].st = "rcu" /\ mem[u].st = "rcu"
            /\ mem[s].id = TypeId(th[t].desc) /\ mem[u].id = TypeId(th[t].desc)
            /\ mem[s].obj # mem[u].obj /\ Hash(mem[s].obj) = Hash(mem[u].obj)

\* C11 (amended): klp_shadow_register() on a descriptor whose registered
\* flag is true changes no reference count, no record, no registered flag
\* and no entry; it returns 0, or -ENOMEM when its kzalloc() has failed.
C11_DoubleRegisterNoOp ==
    [][\A t \in Threads, d \in Descs :
         (Return(t, "register", NULL, d) /\ registered[d])
         => /\ th'[t].ret = IF th[t].pc = "kzalloc" THEN 0 - ENOMEM ELSE 0
            /\ types' = types /\ registered' = registered
            /\ head' = head /\ mem' = mem
            /\ regmem' = regmem - (IF th[t].reg THEN 1 ELSE 0)]_vars

\* C11 as stated: klp_shadow_register() on a descriptor that an earlier
\* klp_shadow_register() has registered returns 0 and changes nothing.
C11_DoubleRegisterSucceeds ==
    [][\A t \in Threads, d \in Descs :
         (Return(t, "register", NULL, d) /\ registered[d] /\ wl.preset = {})
         => /\ th'[t].ret = 0
            /\ types' = types /\ registered' = registered]_vars

\* klp_shadow_register() holds the lock for a descriptor that is registered
\* already, its speculative record allocated
C11_Witness ==
    \E t \in Threads :
       /\ th[t].pc = "cs" /\ th[t].op = "register" /\ lock = t
       /\ th[t].reg /\ registered[th[t].desc]
       /\ Recorded(TypeId(th[t].desc))

\* C12: the locked section of klp_shadow_unregister() for a descriptor that
\* is not registered, or whose id has no record on klp_shadow_types,
\* changes no reference count, record, registered flag or entry; and no
\* reference count is ever negative.
C12_UnregisterUnknownNoOp ==
    [][/\ \A t \in Threads, d \in Descs :
           (/\ th[t].pc = "cs" /\ th[t].op = "unregister" /\ th[t].desc = d
            /\ th'[t].pc = "unlock"
            /\ (~registered[d] \/ ~Recorded(TypeId(d))))
           => /\ types' = types /\ registered' = registered
              /\ head' = head /\ mem' = mem /\ regmem' = regmem
       /\ \A k \in 1 .. Len(types') : types'[k].ref_cnt >= 0]_vars

\* klp_shadow_unregister() is about to unlock after it has found no record
\* for a descriptor whose registered flag is set, while the record of
\* another id is on the list
C12_Witness ==
    \E t \in Threads :
       /\ th[t].pc = "unlock" /\ th[t].op = "unregister"
       /\ registered[th[t].desc] /\ ~Recorded(TypeId(th[t].desc))
       /\ types # <<>>

\* the records of type-id i on klp_shadow_types
Records(i) == {k \in 1 .. Len(types) : types[k].id = i}

\* the descriptors of type-id i whose registered flag is set
Registered(i) == {d \in Descs : TypeId(d) = i /\ registered[d]}

\* ref_cnt of type-id i, 0 when it has no record
RefCnt(i) == IF Records(i) = {} THEN 0 ELSE types[CHOOSE k \in Records(i) : TRUE].ref_cnt

\* C13: when only klp_shadow_register() and klp_shadow_unregister() write
\* the registered flags, every type-id has at most one record, has a record
\* exactly when a descriptor of the id is registered, the record's ref_cnt
\* is the number of registered descriptors of the id, and every step
\* changes a ref_cnt by at most one.
C13_RefCount ==
    [][wl.preset = {}
       => \A i \in Ids :
            /\ Cardinality(Records(i)') <= 1
            /\ (Records(i)' = {}) <=> (Registered(i)' = {})
            /\ RefCnt(i)' = Cardinality(Registered(i)')
            /\ RefCnt(i)' - RefCnt(i) \in {0 - 1, 0, 1}]_vars

\* both type-ids are registered, one of them by two descriptors
C13_Witness ==
    /\ wl.preset = {} /\ Len(types) = 2
    /\ \E i \in Ids : RefCnt(i) = 2 /\ Cardinality(Registered(i)) = 2

\* C14: klp_shadow_get() changes neither the hashtable nor the registry;
\* with a descriptor that is not registered it returns NULL at once, whatever
\* the table holds; what it returns otherwise is an entry of its <obj, id>,
\* and without concurrent callers it is the first such entry of the bucket,
\* NULL when there is none.
C14_Get ==
    [][\A t \in Threads, o \in Objs, d \in Descs :
         (/\ th[t].op = "get" /\ th[t].obj = o /\ th[t].desc = d
          /\ th[t].pc \in {"get", "scan"} /\ th'[t] # th[t])
         => /\ head' = head /\ types' = types /\ registered' = registered
            /\ \A s \in Hashed : mem'[s] = mem[s]
            /\ (th[t].pc = "get" /\ ~registered[d])
               => th'[t].pc = "idle" /\ th'[t].ret = NULL
            /\ (th'[t].pc = "idle" /\ th'[t].ret # NULL)
               => /\ mem[th'[t].ret].st \in {"live", "rcu"}
                  /\ mem[th'[t].ret].obj = o
                  /\ mem[th'[t].ret].id = TypeId(d)
            /\ (th'[t].pc = "idle" /\ wl.threads = {t})
               => th'[t].ret = klp_shadow_get_locked(o, d)]_vars

\* klp_shadow_get() is entered with a descriptor that is not registered
\* while an entry of its <obj, id> is in the hashtable
C14_Witness ==
    \E t \in Threads :
       /\ th[t].pc = "get" /\ th[t].op = "get" /\ ~registered[th[t].desc]
       /\ Entries(th[t].obj, TypeId(th[t].desc)) # {}

\* C15: the step of klp_shadow_alloc() or klp_shadow_get_or_alloc() in which
\* the constructor fails returns NULL, attaches nothing, releases the
\* speculative object and the lock, and leaves the hashtable and every
\* entry in it as they were.
C15_CtorFailure ==
    [][\A t \in Threads, o \in Objs, d \in Descs :
         (/\ th[t].pc = "cs" /\ th[t].op \in {"alloc", "get_or_alloc"}
          /\ th[t].obj = o /\ th[t].desc = d /\ th'[t].ctor = "err")
         => /\ th'[t].pc = "idle" /\ th'[t].ret = NULL /\ ~th'[t].ins
            /\ head' = head /\ Hashed' = Hashed
            /\ \A s \in Hashed : mem'[s] = mem[s]
            /\ Entries(o, TypeId(d))' = Entries(o, TypeId(d))
            /\ mem'[th[t].new] = FreeShadow
            /\ lock' = NULL]_vars

\* a call whose constructor failed has returned NULL, and no allocated
\* object is left outside the hashtable
C15_Witness ==
    \E t \in Threads :
       /\ th[t].pc = "idle" /\ th[t].ctor = "err" /\ th[t].ret = NULL
       /\ \A s \in Slots : mem[s].st # "alloc"

\* C16 (amended): klp_shadow_register() that returns -ENOMEM has failed in
\* its kzalloc(), before it takes the lock, and has changed no reference
\* count, record, registered flag or entry.
C16_RegisterEnomem ==
    [][\A t \in Threads, d \in Descs :
         (Return(t, "register", NULL, d) /\ th'[t].ret = 0 - ENOMEM)
         => /\ th[t].pc = "kzalloc" /\ ~th[t].reg
            /\ lock # t /\ lock' = lock
            /\ types' = types /\ registered' = registered
            /\ regmem' = regmem /\ head' = head /\ mem' = mem]_vars

\* C16 as stated: klp_shadow_register() returns -ENOMEM only for a
\* descriptor that is not registered and whose id has no record, and then
\* it has changed nothing.
C16_EnomemOnlyForNewRecord ==
    [][\A t \in Threads, d \in Descs :
         (/\ Return(t, "register", NULL, d) /\ th'[t].ret = 0 - ENOMEM
          /\ wl.preset = {})
         => /\ ~registered[d] /\ ~Recorded(TypeId(d))
            /\ types' = types /\ registered' = registered]_vars

\* the only thread has got -ENOMEM from klp_shadow_register() although
\* every descriptor is registered
C16_Witness ==
    \E t \in Threads :
       /\ wl.threads = {t} /\ wl.preset = {}
       /\ th[t].pc = "idle" /\ th[t].ret = 0 - ENOMEM
       /\ \A d \in Descs : registered[d]

\* a type-id that has a constructor
CtorId(i) == \E d \in Descs : TypeId(d) = i /\ HasCtor(d)

\* the initialisation of node s was complete when it was attached: owner
\* and id set, constructor run before hash_add_rcu()
Constructed(s) ==
    /\ mem[s].obj \in Objs /\ mem[s].id \in Ids
    /\ Len(mem[s].log) >= 1
    /\ IF CtorId(mem[s].id)
       THEN /\ Len(mem[s].log) >= 2
            /\ mem[s].log[1] = "ctor" /\ mem[s].log[2] = "add"
       ELSE mem[s].log[1] = "add"

\* C17: every node that can be reached through the hashtable, and every
\* node a klp_shadow_get() is looking at, had its owner and id set and its
\* constructor completed before it was attached.
C17_PublishAfterConstruct ==
    /\ \A s \in Slots : (OnChain(s) \/ mem[s].st = "live") => Constructed(s)
    /\ \A t \in Threads : th[t].pc = "scan" => Constructed(th[t].pos)

\* a lookup is looking at a constructed entry while another call, its
\* constructor done, has not attached its object yet
C17_Witness ==
    \E t, u \in Threads :
       /\ th[t].pc = "scan" /\ mem[th[t].pos].data = "ctor"
       /\ th[u].pc = "add" /\ mem[th[u].new].data = "ctor"
       /\ ~OnChain(th[u].new)

\* C18 (amended): a node that a klp_shadow_get() inside its read section is
\* looking at is in the hashtable or retired with its release waiting for
\* that reader; its memory has not been released, its owner and id are
\* intact.
C18_NoUseAfterFree ==
    \A t \in Threads :
       th[t].pc = "scan"
       => /\ mem[th[t].pos].st \in {"live", "rcu"}
          /\ mem[th[t].pos].st = "rcu" => t \in gp[th[t].pos]
          /\ mem[th[t].pos].obj \in Objs /\ mem[th[t].pos].id \in Ids

\* C18 as stated: a node that a klp_shadow_get() inside its read section is
\* looking at has neither been released nor been handed to the destructor.
C18_NeverDestructed ==
    \A t \in Threads :
       th[t].pc = "scan"
       => /\ mem[th[t].pos].st \in {"live", "rcu"}
          /\ mem[th[t].pos].data # "dtor"

\* a lookup is looking at a node that was retired after the read section
\* began
C18_Witness ==
    \E t \in Threads :
       /\ th[t].pc = "scan" /\ mem[th[t].pos].st = "rcu"
       /\ t \in gp[th[t].pos] /\ lock = NULL

\* C20: the locked section of klp_shadow_free(o, t) changes nothing when no
\* entry of <o, t.id> is in the hashtable; otherwise it takes exactly one
\* entry of <o, t.id> out and leaves every other entry in place with the
\* same owner, id and data; the registry is not touched.
C20_FreeOne ==
    [][\A t \in Threads, o \in Objs, d \in Descs :
         (/\ th[t].pc = "cs" /\ th[t].op = "free"
          /\ th[t].obj = o /\ th[t].desc = d /\ th'[t].pc = "unlock")
         => /\ types' = types /\ registered' = registered /\ regmem' = regmem
            /\ IF Entries(o, TypeId(d)) = {}
               THEN head' = head /\ mem' = mem /\ gp' = gp
               ELSE \E s \in Entries(o, TypeId(d)) :
                      /\ mem'[s].st = "rcu" /\ ~OnChain(s)'
                      /\ \A u \in Hashed \ {s} : Kept(u)]_vars

\* klp_shadow_free() is about to unlock: it has retired its entry, and an
\* entry of another owner is still on the same chain
C20_Witness ==
    \E t \in Threads :
       /\ th[t].pc = "unlock" /\ th[t].op = "free"
       /\ \E s \in Slots : /\ mem[s].st = "rcu" /\ mem[s].obj = th[t].obj
                            /\ mem[s].id = TypeId(th[t].desc)
       /\ \E u \in Hashed : /\ mem[u].obj # th[t].obj
                             /\ Hash(mem[u].obj) = Hash(th[t].obj)

\* C19: klp_shadow_get() never holds klp_shadow_lock and never waits for
\* it: whoever holds the lock, each of its steps can be taken, and none of
\* them writes the lock; a writer waiting for the lock can take it whenever
\* it is free, whatever lookups are in progress.
C19_GetLockFree ==
    \A t \in wl.threads :
       /\ th[t].op = "get" => /\ lock # t
                              /\ th[t].pc \in {"get", "scan"}
       /\ th[t].pc \in {"get", "scan"}
          => ENABLED ((get_enter(t) \/ get_scan(t)) /\ lock' = lock)
       /\ th[t].pc = "lock" /\ lock = NULL => ENABLED spin_lock(t)

\* a lookup is in the middle of its walk while the other thread is inside
\* its critical section
C19_Witness ==
    \E t, u \in Threads :
       /\ th[t].op = "get" /\ th[t].pc = "scan"
       /\ th[u].pc = "cs" /\ lock = u

\* a type-id that has a destructor
DtorId(i) == \E d \in Descs : TypeId(d) = i /\ HasDtor(d)

\* what has happened to an entry of type-id i up to its attachment, and up
\* to its hand-over to kfree_rcu()
LifeToAdd(i) == (IF CtorId(i) THEN <<"ctor">> ELSE <<>>) \o <<"add">>
LifeToRcu(i) ==
    LifeToAdd(i) \o <<"del">> \o (IF DtorId(i) THEN <<"dtor">> ELSE <<>>)
                 \o <<"rcu">>

\* C21: an object that is not attached has met no destructor; an attached
\* entry has been constructed and attached once and nothing else; a removed
\* entry has been unlinked once, then destructed once (when its type has a
\* destructor), then queued for release once, in this order.
C21_DtorOnce ==
    \A s \in Slots :
       /\ mem[s].st = "free" => mem[s].log = <<>>
       /\ mem[s].st = "alloc" => mem[s].log \in {<<>>, <<"ctor">>}
       /\ mem[s].st = "live" => mem[s].log = LifeToAdd(mem[s].id)
       /\ mem[s].st = "rcu" => mem[s].log = LifeToRcu(mem[s].id)

\* an entry has been removed and destructed while the other thread waits
\* for the lock to remove the entries of the same type-id
C21_Witness ==
    \E t, u \in Threads, s \in Slots :
       /\ th[t].pc = "unlock" /\ th[t].op \in {"free", "free_all", "unregister"}
       /\ th[u].pc = "lock" /\ th[u].op \in {"free", "free_all", "unregister"}
       /\ th[t].op # th[u].op
       /\ mem[s].st = "rcu" /\ mem[s].data = "dtor"
       /\ TypeId(th[u].desc) = mem[s].id /\ TypeId(th[t].desc) = mem[s].id

\* thread t is between its spin_lock and its spin_unlock
InCs(t) == th[t].pc \in {"cs", "add", "unlock"}

\* this step writes the hashtable (a bucket head, the linkage of an object
\* or what its constructor or destructor did to it), the list of
\* registration records, a ref_cnt or a registered flag; the release of an
\* object and the kzalloc() of a new one are not writes of the hashtable
Mutation ==
    \/ head' # head
    \/ types' # types
    \/ registered' # registered
    \/ \E s \in Slots :
         /\ mem'[s].st # "free" /\ mem'[s] # ZeroShadow
         /\ \/ mem'[s].log # mem[s].log
            \/ mem'[s].next # mem[s].next
            \/ mem'[s].pprev # mem[s].pprev

\* C22: a step that runs a constructor or destructor or writes the
\* hashtable or the type registry is a step of the thread that holds
\* klp_shadow_lock, taken inside its critical section; a thread is inside
\* a critical section exactly when it holds the lock, so no two critical
\* sections overlap.
C22_MutationsUnderLock ==
    [][/\ \A t \in Threads : InCs(t) <=> lock = t
       /\ \A t \in Threads : InCs(t)' <=> lock' = t
       /\ \A t, u \in Threads : InCs(t) /\ InCs(u) => t = u
       /\ Mutation => /\ lock \in Threads
                       /\ InCs(lock)
                       /\ th'[lock].pc # th[lock].pc
                       /\ \A u \in Threads \ {lock} : th'[u].pc = th[u].pc]_vars

\* a thread has run its constructor under the lock and is about to attach
\* the entry while the other thread waits for the lock
C22_Witness ==
    \E t, u \in Threads :
       /\ th[t].pc = "add" /\ th[t].ctor = "ok" /\ lock = t
       /\ th[u].pc = "lock"

\* the speculative struct klp_shadow objects: allocated, not attached
Speculative == {s \in Slots : mem[s].st = "alloc"}

\* thread t allocates in this step: a struct klp_shadow in
\* __klp_shadow_get_or_alloc() or a record in klp_shadow_register()
Kzalloc(t) ==
    \/ th[t].new = NULL /\ th'[t].new # NULL
    \/ ~th[t].reg /\ th'[t].reg

\* C23: a thread that allocates does not hold klp_shadow_lock and takes
\* the lock only afterwards; every speculative object belongs to a call
\* that has not returned, so a call that returns has attached its object or
\* released it; the registration records allocated and not released are
\* those on klp_shadow_types plus those of running klp_shadow_register()
\* calls.
C23_NoAllocUnderLock ==
    [][/\ \A t \in Threads :
            Kzalloc(t) => /\ lock # t /\ lock' # t
                          /\ ~InCs(t) /\ th'[t].pc = "lock"
       /\ \A s \in Slots :
            mem'[s] = ZeroShadow /\ mem[s] # ZeroShadow
            => \E t \in Threads : Kzalloc(t) /\ th'[t].new = s
       /\ regmem' > regmem => \E t \in Threads : Kzalloc(t) /\ th'[t].reg
       /\ \A s \in Speculative' :
            \E t \in Threads : /\ th'[t].new = s
                                /\ th'[t].pc \in {"lock", "cs", "add"}
       /\ \A t \in Threads, s \in Slots :
            (th[t].new = s /\ th'[t].pc = "idle")
            => IF th'[t].ins /\ ~th'[t].exist /\ th'[t].ctor # "err"
               THEN mem'[s].st = "live"
               ELSE mem'[s].st = "free"
       /\ regmem' = Len(types')
                     + Cardinality({t \in Threads : th'[t].reg})]_vars

\* a call that found a duplicate under the lock has returned and its
\* speculative object is gone, and so is the record of a second
\* klp_shadow_register() of a descriptor
C23_Witness ==
    /\ \E t \in Threads : th[t].pc = "idle" /\ th[t].exist
    /\ Speculative = {}
    /\ types # <<>> /\ regmem = Len(types)

\* C24: a thread that is not inside a call does not hold klp_shadow_lock,
\* and, every thread running on and the lock being fair, a call that has
\* been made returns.
C24_EventuallyReturns ==
    /\ [](\A t \in Threads : th[t].pc = "idle" => lock # t)
    /\ \A t \in Threads : (th[t].pc # "idle") ~> (th[t].pc = "idle")

\* klp_shadow_unregister() is on its error path, the lock in its hands,
\* while the other thread waits for the lock
C24_Witness ==
    \E t, u \in Threads :
       /\ th[t].pc = "unlock" /\ th[t].op = "unregister" /\ lock = t
       /\ registered[th[t].desc] = FALSE /\ types = <<>>
       /\ th[u].pc = "lock"

====
